---------------------------- MODULE Spec2Model ----------------------------
(***************************************************************************)
(* Model of gbmonitor (src/monitor.py): the HID request encoder            *)
(* Monitor._build_request, the device write path Monitor.set_property and  *)
(* the command line driver main() with its argparse validation.            *)
(*                                                                         *)
(* Strings are sequences of chunks: an option or property name is a        *)
(* sequence of words and separator characters (<<"kvm", "-", "switch">>),  *)
(* a value token is a sequence of characters (<<"1", "0", "0">>).          *)
(* Python's None is the empty sequence and an int n held in an optional    *)
(* slot is <<n>>.                                                          *)
(***************************************************************************)
EXTENDS Integers, Sequences, FiniteSets, TLC

VARIABLES
    pc,         \* control position of the running entry point
    caller,     \* "none", "main" (the CLI) or "api" (a direct set_property call)
    argv,       \* the command line handed to main: sequence of <<option, token>>
    args,       \* the argparse namespace: sequence of [dest, value] in vars(args) order
    idx,        \* position of main's for loop in vars(args).items()
    sp_name,    \* property_name of the set_property call in progress
    sp_value,   \* property_value of the set_property call in progress
    sp_mark,    \* Len(log) when the set_property call in progress was entered
    handles,    \* number of HID device handles currently open
    exc,        \* the exception in flight, "none" when there is none
    log,        \* history of device and timing events
    enc_pc,     \* encoder harness: "ready" or "done"
    enc_prop,   \* encoder harness: the MonitorProperty passed to _build_request
    enc_value,  \* encoder harness: the property_value passed to _build_request
    enc_out     \* encoder harness: what _build_request produced

vars == <<pc, caller, argv, args, idx, sp_name, sp_value, sp_mark, handles,
          exc, log, enc_pc, enc_prop, enc_value, enc_out>>

cliVars == <<pc, caller, argv, args, idx, sp_name, sp_value, sp_mark, handles,
             exc, log>>

encVars == <<enc_pc, enc_prop, enc_value, enc_out>>

-----------------------------------------------------------------------------
(* Bounds of the model *)

\* values handed to the encoder range over -ValueSlack .. 255 + ValueSlack
ValueSlack == 2

\* longest command line (number of option/value pairs)
MaxArgs == 2

-----------------------------------------------------------------------------
(* Monitor: constants and the property catalog *)

VID == 3034     \* 0x0BDA

PID == 4352     \* 0x1100

None == <<>>

MonitorProperty(key, name, abbr, lo, hi, value) ==
    [key |-> key, name |-> name, abbr |-> abbr, range |-> <<lo, hi>>, value |-> value]

\* The dict returned by Monitor.configurable_properties, in insertion order.
\* key is the dict key, the other fields are the dataclass fields.
configurable_properties ==
    << MonitorProperty(<<"brightness">>, <<"brightness">>, <<"b">>, 0, 100, 16),
       MonitorProperty(<<"contrast">>, <<"contrast">>, <<"c">>, 0, 100, 18),
       MonitorProperty(<<"sharpness">>, <<"sharpness">>, <<"s">>, 0, 10, 135),
       MonitorProperty(<<"low", "_", "blue", "_", "light">>,
                       <<"low", "-", "blue", "-", "light">>, <<"lb">>, 0, 10, 57355),
       MonitorProperty(<<"kvm", "_", "switch">>, <<"kvm", "-", "switch">>,
                       <<"kvm">>, 0, 1, 57449),
       MonitorProperty(<<"color", "_", "mode">>, <<"color", "-", "mode">>,
                       <<"cm">>, 0, 3, 57347),
       MonitorProperty(<<"rgb", "_", "red">>, <<"rgb", "-", "red">>, None, 0, 100, 57348),
       MonitorProperty(<<"rgb", "_", "green">>, <<"rgb", "-", "green">>, None, 0, 100, 57349),
       MonitorProperty(<<"rgb", "_", "blue">>, <<"rgb", "-", "blue">>, None, 0, 100, 57350) >>

CatalogIndex == 1..Len(configurable_properties)

CatalogKeys == {configurable_properties[k].key : k \in CatalogIndex}

\* configurable_properties[property_name] for a key that is present
Lookup(property_name) ==
    configurable_properties[CHOOSE k \in CatalogIndex :
                                configurable_properties[k].key = property_name]

-----------------------------------------------------------------------------
(* Monitor._build_request *)

\* [0x00] * n ; a non-positive n gives the empty list
Zeros(n) == [i \in 1..n |-> 0]

\* variant: elements reduced modulo 256 instead of rejected
bytes_masking(buffer) ==
    [exc |-> "none", val |-> [i \in 1..Len(buffer) |-> buffer[i] % 256]]

\* bytes(buffer): every element must be in range(0, 256), else ValueError
bytes(buffer) ==
    IF \A i \in 1..Len(buffer) : buffer[i] \in 0..255
    THEN [exc |-> "none", val |-> buffer]
    ELSE [exc |-> "ValueError", val |-> <<>>]

\* variant: three reserved zero bytes instead of four
header_shifted == <<0>> \o <<64, 198>> \o Zeros(3) \o <<32, 0, 110, 0, 128>>

\* lines 106-111: the leading null byte and the request header
header == <<0>> \o <<64, 198>> \o Zeros(4) \o <<32, 0, 110, 0, 128>>

\* variants: value and zero byte exchanged; id code low byte first; high byte dropped
msg_swapped(monitor_property, property_value) ==
    (IF monitor_property.value > 255
     THEN <<monitor_property.value \div 256>> ELSE <<>>)
    \o <<monitor_property.value % 256, property_value, 0>>

msg_low_first(monitor_property, property_value) ==
    (IF monitor_property.value > 255
     THEN <<monitor_property.value % 256, monitor_property.value \div 256>>
     ELSE <<monitor_property.value % 256>>)
    \o <<0, property_value>>

msg_no_high(monitor_property, property_value) ==
    <<monitor_property.value % 256, 0, property_value>>

\* lines 114-115: the message, one or two bytes of id code, 0x00, the value
msg(monitor_property, property_value) ==
    (IF monitor_property.value > 255
     THEN <<monitor_property.value \div 256>> ELSE <<>>)
    \o <<monitor_property.value % 256, 0, property_value>>

\* line 117
preamble(m) == <<81, 129 + Len(m), 3>>

\* variant: trailing padding sized for a three byte message
_build_request_fixed_pad(monitor_property, property_value) ==
    LET request_size == 192 + 1
        header_size == 64 + 1
        m == msg(monitor_property, property_value)
        padded == header \o Zeros(header_size - Len(header))
        body == padded \o preamble(m) \o m
    IN  bytes(body \o Zeros(request_size - header_size - 3 - 3))

\* lines 102-125
_build_request(monitor_property, property_value) ==
    LET request_size == 192 + 1
        header_size == 64 + 1
        m == msg(monitor_property, property_value)
        padded == header \o Zeros(header_size - Len(header))
        body == padded \o preamble(m) \o m
    IN  bytes(body \o Zeros(request_size - Len(body)))

-----------------------------------------------------------------------------
(* Encoder harness: _build_request applied to one (property, value) input *)

\* id codes besides the catalog's, at the edges of the one and two byte forms
ExtraIdCodes == {0, 255, 256, 4660, 65535}

EncProps ==
    {configurable_properties[k] : k \in CatalogIndex}
    \cup {MonitorProperty(<<"probe">>, <<"probe">>, None, 0, 255, c) : c \in ExtraIdCodes}

EncValues == (0 - ValueSlack)..(255 + ValueSlack)

NoOutput == [exc |-> "none", val |-> <<>>]

CliInit ==
    /\ pc = "start"
    /\ caller = "none"
    /\ argv = <<>>
    /\ args = <<>>
    /\ idx = 0
    /\ sp_name = None
    /\ sp_value = None
    /\ sp_mark = 0
    /\ handles = 0
    /\ exc = "none"
    /\ log = <<>>

InitEnc ==
    /\ CliInit
    /\ enc_pc = "ready"
    /\ enc_prop \in EncProps
    /\ enc_value \in EncValues
    /\ enc_out = NoOutput

BuildRequest ==
    /\ enc_pc = "ready"
    /\ enc_out' = _build_request(enc_prop, enc_value)
    /\ enc_pc' = "done"
    /\ UNCHANGED <<enc_prop, enc_value>>
    /\ UNCHANGED cliVars

NextEnc == BuildRequest

SpecEnc == InitEnc /\ [][NextEnc]_vars

-----------------------------------------------------------------------------
(* argparse as main() uses it *)

\* line 167: the option strings of a property, ("-abbr", "--name") or ("--name",)
OptionStrings(prop) ==
    (IF prop.abbr # None THEN {<<"-">> \o prop.abbr} ELSE {}) \cup {<<"--">> \o prop.name}

\* add_argument's dest: the long option without its prefix, "-" replaced by "_"
Dest(name) == [i \in 1..Len(name) |-> IF name[i] = "-" THEN "_" ELSE name[i]]

Digits == <<"0", "1", "2", "3", "4", "5", "6", "7", "8", "9">>

IsDigit(c) == \E i \in 1..Len(Digits) : Digits[i] = c

DigitValue(c) == (CHOOSE i \in 1..Len(Digits) : Digits[i] = c) - 1

RECURSIVE Magnitude(_)
Magnitude(ds) ==
    IF ds = <<>> THEN 0
    ELSE Magnitude(SubSeq(ds, 1, Len(ds) - 1)) * 10 + DigitValue(ds[Len(ds)])

\* line 151: int(arg) on a decimal literal with an optional sign
int(arg) ==
    LET signed == arg # <<>> /\ arg[1] \in {"-", "+"}
        ds == IF signed THEN Tail(arg) ELSE arg
    IN  IF ds = <<>> \/ \E i \in 1..Len(ds) : ~IsDigit(ds[i])
        THEN [exc |-> "ValueError", val |-> 0]
        ELSE [exc |-> "none",
              val |-> IF arg[1] = "-" THEN 0 - Magnitude(ds) ELSE Magnitude(ds)]

\* variant: no range check
ranged_int_unchecked(min, max, arg) ==
    LET x == int(arg)
    IN  IF x.exc = "ValueError"
        THEN [exc |-> "ArgumentTypeError", val |-> 0]
        ELSE [exc |-> "none", val |-> x.val]

\* lines 149-156: the converter ranged_int(min, max) applied to arg
ranged_int(min, max, arg) ==
    LET x == int(arg)
    IN  IF x.exc = "ValueError"
        THEN [exc |-> "ArgumentTypeError", val |-> 0]
        ELSE IF x.val < min \/ x.val > max
             THEN [exc |-> "ArgumentTypeError", val |-> 0]
             ELSE [exc |-> "none", val |-> x.val]

Max(S) == CHOOSE x \in S : \A y \in S : y <= x

Min(S) == CHOOSE x \in S : \A y \in S : x <= y

\* lines 166-169: the parser built from the catalog, applied to the command
\* line a. Any unrecognised option or failed conversion ends in parser.error,
\* which raises SystemExit; otherwise every dest is present, in the order the
\* arguments were added, holding None or the last converted value given.
parse_args(a) ==
    LET Owner(opt) == {k \in CatalogIndex : opt \in OptionStrings(configurable_properties[k])}
        Converted(i) ==
            LET prop == configurable_properties[CHOOSE k \in Owner(a[i][1]) : TRUE]
            IN  ranged_int(prop.range[1], prop.range[2], a[i][2])
        Rejected(i) == Owner(a[i][1]) = {} \/ Converted(i).exc # "none"
        Given(k) == {i \in 1..Len(a) : a[i][1] \in OptionStrings(configurable_properties[k])}
    IN  IF \E i \in 1..Len(a) : Rejected(i)
        THEN [exc |-> "SystemExit", ns |-> <<>>]
        ELSE [exc |-> "none",
              ns  |-> [k \in CatalogIndex |->
                         [dest  |-> Dest(configurable_properties[k].name),
                          value |-> IF Given(k) = {} THEN None
                                    ELSE <<Converted(Max(Given(k))).val>>]]]

-----------------------------------------------------------------------------
(* Inputs of the command line and of direct calls *)

CliOptions ==
    { <<"-", "b">>, <<"--", "brightness">>, <<"--", "kvm", "-", "switch">>,
      <<"--", "low", "-", "blue", "-", "light">>, <<"--", "bogus">> }

Tokens ==
    { <<"0">>, <<"1">>, <<"2">>, <<"1", "0", "0">>, <<"1", "0", "1">>,
      <<"-", "1">>, <<"x">> }

Argvs == UNION {[1..n -> CliOptions \X Tokens] : n \in 0..MaxArgs}

ApiNames ==
    { <<"brightness">>, <<"kvm", "_", "switch">>, <<"kvm", "-", "switch">>, <<"volume">> }

ApiValues == {0 - 1, 0, 2, 100, 255, 256}

-----------------------------------------------------------------------------
(* main() and Monitor.set_property *)

Event(ev, name, vid, pid, data) ==
    [ev |-> ev, name |-> name, vid |-> vid, pid |-> pid, data |-> data]

Init ==
    /\ CliInit
    /\ enc_pc = "idle"
    /\ enc_prop = configurable_properties[1]
    /\ enc_value = 0
    /\ enc_out = NoOutput

\* lines 161-169: main builds the parser and parses the command line
Main ==
    /\ pc = "start"
    /\ \E a \in Argvs :
         LET r == parse_args(a)
         IN  /\ argv' = a
             /\ caller' = "main"
             /\ IF r.exc # "none"
                THEN /\ exc' = r.exc
                     /\ pc' = "exited"
                     /\ UNCHANGED <<args, idx>>
                ELSE /\ args' = r.ns
                     /\ idx' = 1
                     /\ pc' = "loop"
                     /\ exc' = "none"
    /\ UNCHANGED <<sp_name, sp_value, sp_mark, handles, log>>
    /\ UNCHANGED encVars

\* a direct call Monitor().set_property(name, value)
ApiCall ==
    /\ pc = "start"
    /\ \E name \in ApiNames, value \in ApiValues :
         /\ sp_name' = name
         /\ sp_value' = value
    /\ caller' = "api"
    /\ sp_mark' = Len(log)
    /\ pc' = "sp_lookup"
    /\ UNCHANGED <<argv, args, idx, handles, exc, log>>
    /\ UNCHANGED encVars

\* lines 172-174: the for loop advances to the next item whose value is not
\* None and calls set_property with it, or ends
MainLoop ==
    /\ pc = "loop"
    /\ LET rest == {k \in idx..Len(args) : args[k].value # None}
       IN  IF rest = {}
           THEN /\ pc' = "done"
                /\ UNCHANGED <<idx, sp_name, sp_value, sp_mark>>
           ELSE /\ idx' = Min(rest)
                /\ sp_name' = args[Min(rest)].dest
                /\ sp_value' = args[Min(rest)].value[1]
                /\ sp_mark' = Len(log)
                /\ pc' = "sp_lookup"
    /\ UNCHANGED <<caller, argv, args, handles, exc, log>>
    /\ UNCHANGED encVars

\* line 135: prop = self.configurable_properties[property_name]
SetPropertyLookup ==
    /\ pc = "sp_lookup"
    /\ IF sp_name \in CatalogKeys
       THEN pc' = "sp_open" /\ exc' = exc
       ELSE pc' = "sp_raise" /\ exc' = "KeyError"
    /\ UNCHANGED <<caller, argv, args, idx, sp_name, sp_value, sp_mark, handles, log>>
    /\ UNCHANGED encVars

\* line 136: hid.Device(VID, PID) opens the device
OpenOk ==
    /\ pc = "sp_open"
    /\ handles' = handles + 1
    /\ log' = Append(log, Event("open", sp_name, VID, PID, <<>>))
    /\ pc' = "sp_write"
    /\ UNCHANGED <<caller, argv, args, idx, sp_name, sp_value, sp_mark, exc>>
    /\ UNCHANGED encVars

\* line 136: hid.Device(VID, PID) raises (no device, no permission)
OpenFails ==
    /\ pc = "sp_open"
    /\ log' = Append(log, Event("open_failed", sp_name, VID, PID, <<>>))
    /\ exc' = "HIDException"
    /\ pc' = "sp_raise"
    /\ UNCHANGED <<caller, argv, args, idx, sp_name, sp_value, sp_mark, handles>>
    /\ UNCHANGED encVars

\* line 137: _build_request raises, nothing reaches device.write
EncodeRaises ==
    /\ pc = "sp_write"
    /\ _build_request(Lookup(sp_name), sp_value).exc # "none"
    /\ exc' = _build_request(Lookup(sp_name), sp_value).exc
    /\ pc' = "sp_exit"
    /\ UNCHANGED <<caller, argv, args, idx, sp_name, sp_value, sp_mark, handles, log>>
    /\ UNCHANGED encVars

\* line 137: device.write(request) succeeds
WriteOk ==
    /\ pc = "sp_write"
    /\ _build_request(Lookup(sp_name), sp_value).exc = "none"
    /\ log' = Append(log, Event("write", sp_name, 0, 0,
                                _build_request(Lookup(sp_name), sp_value).val))
    /\ pc' = "sp_exit"
    /\ UNCHANGED <<caller, argv, args, idx, sp_name, sp_value, sp_mark, handles, exc>>
    /\ UNCHANGED encVars

\* line 137: device.write(request) raises
WriteFails ==
    /\ pc = "sp_write"
    /\ _build_request(Lookup(sp_name), sp_value).exc = "none"
    /\ log' = Append(log, Event("write_failed", sp_name, 0, 0,
                                _build_request(Lookup(sp_name), sp_value).val))
    /\ exc' = "HIDException"
    /\ pc' = "sp_exit"
    /\ UNCHANGED <<caller, argv, args, idx, sp_name, sp_value, sp_mark, handles>>
    /\ UNCHANGED encVars

\* variant: the device is closed only when the body returned
ExitOnSuccessOnly ==
    /\ pc = "sp_exit"
    /\ IF exc = "none"
       THEN /\ handles' = handles - 1
            /\ log' = Append(log, Event("close", sp_name, 0, 0, <<>>))
            /\ pc' = "sp_return"
       ELSE /\ pc' = "sp_raise"
            /\ UNCHANGED <<handles, log>>
    /\ UNCHANGED <<caller, argv, args, idx, sp_name, sp_value, sp_mark, exc>>
    /\ UNCHANGED encVars

\* line 136: leaving the with block closes the device, whether the body
\* returned or raised
Exit ==
    /\ pc = "sp_exit"
    /\ handles' = handles - 1
    /\ log' = Append(log, Event("close", sp_name, 0, 0, <<>>))
    /\ pc' = IF exc = "none" THEN "sp_return" ELSE "sp_raise"
    /\ UNCHANGED <<caller, argv, args, idx, sp_name, sp_value, sp_mark, exc>>
    /\ UNCHANGED encVars

\* variant: no delay between writes
MainNoSleep ==
    /\ pc = "sp_return"
    /\ caller = "main"
    /\ idx' = idx + 1
    /\ pc' = "loop"
    /\ UNCHANGED <<caller, argv, args, sp_name, sp_value, sp_mark, handles, exc, log>>
    /\ UNCHANGED encVars

\* lines 176-177: back in main after set_property returned: time.sleep(0.2),
\* then the next iteration
MainSleep ==
    /\ pc = "sp_return"
    /\ caller = "main"
    /\ log' = Append(log, Event("sleep", sp_name, 0, 0, <<>>))
    /\ idx' = idx + 1
    /\ pc' = "loop"
    /\ UNCHANGED <<caller, argv, args, sp_name, sp_value, sp_mark, handles, exc>>
    /\ UNCHANGED encVars

\* set_property returned to a direct caller
ApiReturn ==
    /\ pc = "sp_return"
    /\ caller = "api"
    /\ pc' = "done"
    /\ UNCHANGED <<caller, argv, args, idx, sp_name, sp_value, sp_mark, handles, exc, log>>
    /\ UNCHANGED encVars

\* variant: main swallows the exception and goes on with the next item
PropagateAndContinue ==
    /\ pc = "sp_raise"
    /\ IF caller = "main"
       THEN /\ pc' = "loop"
            /\ idx' = idx + 1
            /\ exc' = "none"
       ELSE /\ pc' = "crashed"
            /\ UNCHANGED <<idx, exc>>
    /\ UNCHANGED <<caller, argv, args, sp_name, sp_value, sp_mark, handles, log>>
    /\ UNCHANGED encVars

\* set_property raised: neither set_property nor main catches anything, the
\* exception leaves the entry point and the run is over
Propagate ==
    /\ pc = "sp_raise"
    /\ pc' = "crashed"
    /\ UNCHANGED <<caller, argv, args, idx, sp_name, sp_value, sp_mark, handles, exc, log>>
    /\ UNCHANGED encVars

Next ==
    \/ Main
    \/ ApiCall
    \/ MainLoop
    \/ SetPropertyLookup
    \/ OpenOk
    \/ OpenFails
    \/ EncodeRaises
    \/ WriteOk
    \/ WriteFails
    \/ Exit
    \/ MainSleep
    \/ ApiReturn
    \/ Propagate

Spec == Init /\ [][Next]_vars

-----------------------------------------------------------------------------
(* Properties of the encoder, checked under SpecEnc *)

Catalog == {configurable_properties[k] : k \in CatalogIndex}

EncDone == enc_pc = "done"

InByte(v) == v \in 0..255

\* bytes at 0-indexed offsets from..to of a request
Bytes(req, from, to) == SubSeq(req, from + 1, to + 1)

\* C1: for every property (one or two byte id code) and every value in 0..255
\* _build_request returns a byte sequence of length exactly 193.
C1_LengthIs193 ==
    (EncDone /\ InByte(enc_value))
        => (enc_out.exc = "none" /\ Len(enc_out.val) = 193)

C1_Witness ==
    /\ EncDone
    /\ enc_prop.value = 65535
    /\ enc_value = 255
    /\ Len(enc_out.val) = 193

\* C2: for an id code <= 0xFF and a value in 0..255 the request carries the
\* preamble [0x51, 0x84, 0x03] at offsets 65..67 and the message
\* [id_code, 0x00, value] at offsets 68..70.
C2_ShortMessage ==
    (EncDone /\ enc_prop.value <= 255 /\ InByte(enc_value))
        => /\ enc_out.exc = "none"
           /\ Bytes(enc_out.val, 65, 67) = <<81, 132, 3>>
           /\ Bytes(enc_out.val, 68, 70) = <<enc_prop.value, 0, enc_value>>

C2_Witness ==
    /\ EncDone
    /\ enc_prop.key = <<"brightness">>
    /\ enc_value = 100
    /\ Bytes(enc_out.val, 65, 70) = <<81, 132, 3, 16, 0, 100>>

\* C3: for an id code > 0xFF (up to 0xFFFF) and a value in 0..255 the request
\* carries the preamble [0x51, 0x85, 0x03] at offsets 65..67 and the message
\* [id_code >> 8, id_code & 0xFF, 0x00, value] at offsets 68..71; the four byte
\* form is produced exactly when id_code > 0xFF.
C3_LongMessage ==
    (EncDone /\ InByte(enc_value))
        => /\ enc_out.exc = "none"
           /\ (enc_out.val[67] = 133) <=> (enc_prop.value > 255)
           /\ enc_prop.value > 255 =>
                /\ Bytes(enc_out.val, 65, 67) = <<81, 133, 3>>
                /\ Bytes(enc_out.val, 68, 71) =
                       <<enc_prop.value \div 256, enc_prop.value % 256, 0, enc_value>>

C3_Witness ==
    /\ EncDone
    /\ enc_prop.key = <<"low", "_", "blue", "_", "light">>
    /\ enc_value = 5
    /\ Bytes(enc_out.val, 65, 71) = <<81, 133, 3, 224, 11, 0, 5>>

\* C4: the first 65 bytes are the same fixed header for every input (byte 0 is
\* 0x00, bytes 1-2 are 0x40 0xC6, bytes 3-6 are zero, bytes 7-11 are
\* 0x20 0x00 0x6E 0x00 0x80, bytes 12-64 are zero) and every byte after the
\* message (from offset 71 for a three byte message, 72 for a four byte one)
\* up to offset 192 is zero.
MessageEnd(p) == IF p.value > 255 THEN 72 ELSE 71

C4_HeaderAndPadding ==
    (EncDone /\ InByte(enc_value))
        => /\ enc_out.exc = "none"
           /\ Bytes(enc_out.val, 0, 11) = <<0, 64, 198, 0, 0, 0, 0, 32, 0, 110, 0, 128>>
           /\ \A o \in 12..64 : enc_out.val[o + 1] = 0
           /\ \A o \in MessageEnd(enc_prop)..192 : enc_out.val[o + 1] = 0

C4_Witness ==
    /\ EncDone
    /\ enc_prop.value = 57449
    /\ enc_value = 1
    /\ Bytes(enc_out.val, 0, 11) = <<0, 64, 198, 0, 0, 0, 0, 32, 0, 110, 0, 128>>
    /\ enc_out.val[72] = 1
    /\ enc_out.val[73] = 0
    /\ enc_out.val[193] = 0

\* C8 as stated: a value outside one byte produces no error from the encoder,
\* which returns a 193 byte sequence.
C8_NoFailurePath ==
    (EncDone /\ ~InByte(enc_value))
        => (enc_out.exc = "none" /\ Len(enc_out.val) = 193)

\* C8 (amended): a value outside one byte (value < 0 or value > 255) makes
\* _build_request raise ValueError, from bytes(); no byte sequence is returned,
\* so nothing truncated or corrupted leaves the encoder.
C8_OutOfByteRaises ==
    (EncDone /\ ~InByte(enc_value))
        => (enc_out.exc = "ValueError" /\ enc_out.val = <<>>)

C8_Witness ==
    /\ EncDone
    /\ enc_value = 256
    /\ enc_prop.key = <<"brightness">>
    /\ enc_out.exc = "ValueError"

\* C10: over the catalog the encoding is decodable: reading the message length
\* as (byte 66 - 0x81) and the message at offset 68 recovers the id code and the
\* value. Hence distinct (id code, value) pairs give distinct requests, which
\* is also compared directly against the requests of every catalog property
\* with the same and with neighbouring values.
Decode(req) ==
    LET n == req[67] - 129
        m == Bytes(req, 68, 67 + n)
    IN  [id_code |-> IF n = 4 THEN m[1] * 256 + m[2] ELSE m[1],
         value   |-> m[n]]

NearValues(v) == {v, (v + 1) % 256, 255 - v}

C10_DecodableInjective ==
    (EncDone /\ enc_prop \in Catalog /\ InByte(enc_value))
        => /\ enc_out.exc = "none"
           /\ Decode(enc_out.val) = [id_code |-> enc_prop.value, value |-> enc_value]
           /\ \A p \in Catalog : \A v \in NearValues(enc_value) :
                (_build_request(p, v) = enc_out)
                    <=> (p.value = enc_prop.value /\ v = enc_value)

C10_Witness ==
    /\ EncDone
    /\ enc_prop.key = <<"rgb", "_", "green">>
    /\ enc_value = 200
    /\ Decode(enc_out.val) = [id_code |-> 57349, value |-> 200]

-----------------------------------------------------------------------------
(* Properties of main() and set_property, checked under Spec *)

\* What the inputs mean, written out independently of the parser: the integer
\* a token denotes (None when it denotes none) and the catalog key an option
\* addresses (None when the option is not one of the parser's).
TokenDenotes(tok) ==
    CASE tok = <<"0">> -> <<0>>
      [] tok = <<"1">> -> <<1>>
      [] tok = <<"2">> -> <<2>>
      [] tok = <<"1", "0", "0">> -> <<100>>
      [] tok = <<"1", "0", "1">> -> <<101>>
      [] tok = <<"-", "1">> -> <<0 - 1>>
      [] OTHER -> None

OptionKey(opt) ==
    CASE opt = <<"-", "b">> -> <<"brightness">>
      [] opt = <<"--", "brightness">> -> <<"brightness">>
      [] opt = <<"--", "kvm", "-", "switch">> -> <<"kvm", "_", "switch">>
      [] opt = <<"--", "low", "-", "blue", "-", "light">> -> <<"low", "_", "blue", "_", "light">>
      [] OTHER -> None

DeclaredRange(key) ==
    CASE key = <<"brightness">> -> 0..100
      [] key = <<"kvm", "_", "switch">> -> 0..1
      [] key = <<"low", "_", "blue", "_", "light">> -> 0..10
      [] OTHER -> {}

PairValid(p) ==
    /\ OptionKey(p[1]) # None
    /\ TokenDenotes(p[2]) # None
    /\ TokenDenotes(p[2])[1] \in DeclaredRange(OptionKey(p[1]))

AllValid(a) == \A i \in 1..Len(a) : PairValid(a[i])

OpenAttempts == {"open", "open_failed"}

WriteAttempts == {"write", "write_failed"}

Failures == {"open_failed", "write_failed"}

Attempted(key) ==
    \E j \in 1..Len(log) : log[j].name = key /\ log[j].ev \in OpenAttempts

NoFailure == \A j \in 1..Len(log) : log[j].ev \notin Failures

CatalogPos(key) == CHOOSE k \in CatalogIndex : configurable_properties[k].key = key

\* C5: a validation error is surfaced before any device open, encode or write:
\* in a CLI run where any supplied option is invalid (unknown option, value not
\* an integer, value outside the declared range) nothing is opened or written
\* for any option, valid ones included; and set_property with an unknown name
\* fails with nothing opened.
C5_ValidationBeforeDevice ==
    /\ (caller = "main" /\ ~AllValid(argv))
          => /\ pc = "exited"
             /\ exc = "SystemExit"
             /\ log = <<>>
             /\ handles = 0
    /\ (caller = "api" /\ sp_name \notin CatalogKeys)
          => /\ pc \in {"sp_lookup", "sp_raise", "crashed"}
             /\ pc # "sp_lookup" => exc = "KeyError"
             /\ log = <<>>
             /\ handles = 0

C5_Witness ==
    /\ caller = "main"
    /\ pc = "exited"
    /\ argv = << << <<"-", "b">>, <<"1", "0", "0">> >>,
                 << <<"--", "kvm", "-", "switch">>, <<"2">> >> >>
    /\ PairValid(argv[1])
    /\ ~PairValid(argv[2])
    /\ log = <<>>

\* C6 as stated: when the open or write fails for one property, every
\* supplied property after the failed one is still attempted.
C6_FailureDoesNotBlock ==
    (caller = "main" /\ pc \in {"done", "crashed"})
        => \A i \in 1..Len(argv) : Attempted(OptionKey(argv[i][1]))

\* C6 (amended): when the open or write fails for one property the exception
\* leaves main and ends the run: the supplied properties before the failed one
\* (in catalog order) were set, and no property after the failed one is
\* attempted.
C6_FailureEndsRun ==
    caller = "main" =>
        \A j \in 1..Len(log) :
            log[j].ev \in Failures =>
                /\ pc \in {"sp_exit", "sp_raise", "crashed"}
                /\ exc = "HIDException"
                /\ \A m \in (j + 1)..Len(log) : log[m].ev = "close"
                /\ \A i \in 1..Len(argv) :
                     Attempted(OptionKey(argv[i][1]))
                        <=> CatalogPos(OptionKey(argv[i][1])) <= CatalogPos(log[j].name)

C6_Witness ==
    /\ caller = "main"
    /\ pc = "crashed"
    /\ \E j \in 1..Len(log) : log[j].ev = "write_failed" /\ log[j].name = <<"brightness">>
    /\ \E i \in 1..Len(argv) :
         /\ OptionKey(argv[i][1]) = <<"kvm", "_", "switch">>
         /\ ~Attempted(<<"kvm", "_", "switch">>)

\* The events of the set_property call in progress
Segment == SubSeq(log, sp_mark + 1, Len(log))

Count(seq, evs) == Cardinality({j \in 1..Len(seq) : seq[j].ev \in evs})

Returned == pc \in {"sp_return", "sp_raise"}

OpenOnceAndClosed ==
    /\ Count(Segment, OpenAttempts) <= 1
    /\ \A j \in 1..Len(Segment) :
         Segment[j].ev \in OpenAttempts => (Segment[j].vid = VID /\ Segment[j].pid = PID)
    /\ Count(Segment, {"close"}) = Count(Segment, {"open"})
    /\ handles = 0
    /\ (pc = "sp_raise") <=> (exc # "none")

\* C7 as stated: each set_property call opens the device (VID 0x0BDA, PID
\* 0x1100) at most once, performs exactly one write when the open succeeds,
\* has closed the handle by the time it returns or raises, and retries nothing.
C7_OneOpenOneWrite ==
    Returned =>
        /\ OpenOnceAndClosed
        /\ Count(Segment, WriteAttempts) = Count(Segment, {"open"})

\* C7 (amended): each set_property call opens the device (VID 0x0BDA, PID
\* 0x1100) at most once; when the open succeeds it performs exactly one write
\* if the value fits one byte (0..255) and none otherwise (the encoder raises
\* ValueError after the open); the handle is closed by the time the call
\* returns or raises, on the success, write failure and encoding failure
\* paths; a failure is propagated with no second open or write.
C7_OneOpenOneWriteIfEncodable ==
    Returned =>
        /\ OpenOnceAndClosed
        /\ Count(Segment, WriteAttempts) =
              (IF InByte(sp_value) THEN Count(Segment, {"open"}) ELSE 0)
        /\ (Count(Segment, {"open"}) = 1 /\ ~InByte(sp_value))
              => (pc = "sp_raise" /\ exc = "ValueError")

C7_Witness ==
    /\ pc = "sp_raise"
    /\ exc = "HIDException"
    /\ handles = 0
    /\ Len(Segment) = 3
    /\ Segment[1].ev = "open"
    /\ Segment[2].ev = "write_failed"
    /\ Segment[3].ev = "close"

\* The events of setting the catalog's k-th property to v, and the whole
\* history a successful run on command line a leaves, in catalog order
Block(k, v) ==
    LET key == configurable_properties[k].key
    IN  << Event("open", key, VID, PID, <<>>),
           Event("write", key, 0, 0, _build_request(configurable_properties[k], v).val),
           Event("close", key, 0, 0, <<>>),
           Event("sleep", key, 0, 0, <<>>) >>

RECURSIVE ExpectedFrom(_, _)
ExpectedFrom(a, k) ==
    IF k > Len(configurable_properties) THEN <<>>
    ELSE LET given == {i \in 1..Len(a) : OptionKey(a[i][1]) = configurable_properties[k].key}
         IN  (IF given = {} THEN <<>>
              ELSE Block(k, TokenDenotes(a[Max(given)][2])[1]))
             \o ExpectedFrom(a, k + 1)

IsPrefix(s, t) == Len(s) <= Len(t) /\ s = SubSeq(t, 1, Len(s))

\* C9: in a CLI run where all supplied options are valid and every write
\* succeeds, exactly one open-write-close is performed per supplied option and
\* none for the others, in catalog declaration order (not command line order),
\* never more than one handle is open, and a delay follows every write before
\* the next open.
C9_SequentialInCatalogOrder ==
    /\ handles <= 1
    /\ (caller = "main" /\ AllValid(argv) /\ NoFailure)
          => /\ pc \notin {"exited", "crashed"}
             /\ IsPrefix(log, ExpectedFrom(argv, 1))
             /\ pc = "done" => log = ExpectedFrom(argv, 1)

C9_Witness ==
    /\ caller = "main"
    /\ pc = "done"
    /\ argv = << << <<"--", "kvm", "-", "switch">>, <<"1">> >>,
                 << <<"-", "b">>, <<"1", "0", "0">> >> >>
    /\ Len(log) = 8
    /\ log[2].name = <<"brightness">>
    /\ log[6].name = <<"kvm", "_", "switch">>
    /\ log[4].ev = "sleep"
    /\ log[5].ev = "open"

=============================================================================
